---- MODULE Spec2Model ----
(***************************************************************************)
(* Model of the report front end of CompAI (frontend/src/pages/Report.tsx, *)
(* kept here as src/unnamed/part_003): the Markdown converter              *)
(* parseMarkdown, the sectionizer parseSections and the Report page that   *)
(* uses them.                                                              *)
(*                                                                         *)
(* A JavaScript string is a sequence of one-character strings, so that     *)
(* every regular expression, trim, split and startsWith of the source is   *)
(* computed character by character.                                        *)
(***************************************************************************)
EXTENDS Integers, Sequences, FiniteSets, Bags, TLC

VARIABLES
    reportId,     \* useParams().reportId
    report,       \* useState<ReportDetail | null>
    loading,      \* useState(true)
    error,        \* useState<string | null>
    activeTab,    \* useState<string>('overview')
    effectDue,    \* the [reportId] effect has still to run
    pending,      \* getReport promises not settled yet (a bag of report ids)
    tabClicked,   \* ghost: a tab button has been clicked since the load
    mdText,       \* parseMarkdown: the argument text
    mdLines,      \* parseMarkdown: lines (html.split('\n'))
    mdNext,       \* parseMarkdown: index of the next line of the for loop
    inList,       \* parseMarkdown: inList
    processed,    \* parseMarkdown: processed
    mdResult,     \* parseMarkdown: the value returned
    mdPc,         \* parseMarkdown: position ("inline", "loop", "close", "done")
    secContent,   \* parseSections: the argument content
    secSections,  \* parseSections: sections (content.split(/(?=^## )/gm))
    secNext,      \* parseSections: index of the next chunk given to the .map callback
    secMapped,    \* parseSections: the array .map has built so far
    secResult,    \* parseSections: the value returned
    secPc,        \* parseSections: position ("idle", "match", "map", "done")
    VITE_API_URL, \* import.meta.env.VITE_API_URL: <<>> when the build does not set it
    companyName,  \* Research: searchParams.get('company'), <<>> for null
    status,       \* Research: useState<ResearchStatus | null>, <<>> for null
    researchError,  \* Research: useState<string | null> (error)
    hasInitiated, \* Research: hasInitiatedRef.current
    startDue,     \* Research: the effect of lines 387-398 has still to run
    mounted,      \* Research: the page is mounted
    location,     \* the route on display ("research", "home", "report")
    createInFlight,  \* createResearch promises not settled yet
    statusInFlight,  \* getResearchStatus promises not settled yet
    pollTimers,   \* setTimeout(() => pollStatus(id), 2000) not fired yet
    redirectTimers,  \* setTimeout(() => navigate(...), 1500) not fired yet
    createRequests,  \* ghost: createResearch requests issued so far
    lastResponse, \* ghost: how the latest getResearchStatus request ended
    issuedAfter,  \* ghost: lastResponse when the latest status request was issued
    afterUnmount, \* ghost: what the page did after it was unmounted
    effectRuns    \* ghost: runs of the effect of lines 387-398, up to MaxEffectRuns

reportVars == <<reportId, report, loading, error, activeTab, effectDue, pending, tabClicked>>
mdVars == <<mdText, mdLines, mdNext, inList, processed, mdResult, mdPc>>
secVars == <<secContent, secSections, secNext, secMapped, secResult, secPc>>
researchVars ==
    <<companyName, status, researchError, hasInitiated, startDue, mounted, location,
      createInFlight, statusInFlight, pollTimers, redirectTimers,
      createRequests, lastResponse, issuedAfter, afterUnmount, effectRuns>>
vars == <<reportVars, mdVars, secVars, VITE_API_URL, researchVars>>

\* null, where the other values are strings
Null == "null"

---------------------------------------------------------------------------
(* Bounds of the model *)

\* lines of a report document
MaxDocLines == 4
\* lines of a text given to parseMarkdown
MaxMdLines == 3
\* lines of a content given to parseSections
MaxSecLines == 4
\* characters of the text of a link reference
MaxLinkText == 82
\* '#' characters at the start of a line given to parseMarkdown
MaxHashes == 5
\* getReport requests not settled at the time of a route change
MaxPending == 3
\* runs of the start effect of the Research page that are counted
MaxEffectRuns == 3
\* lines of a text of '#' lines given to parseMarkdown
MaxHeadingLines == 2

(* Program constants *)

\* section.body.length > 10 (line 117)
BodyMinLength == 10
\* text.length > 80 (line 38)
LinkTextMax == 80
\* text.substring(0, 77) (line 39)
LinkTextKept == 77
\* progress: number; // 0-100 (types/index.ts line 20)
MaxProgress == 100

---------------------------------------------------------------------------
(* JavaScript string primitives *)

NL == "\n"

\* String.prototype.trim's white space, as far as the documents use it
IsWhite(c) == c \in {" ", "\n", "\t"}

Min(S) == CHOOSE x \in S : \A y \in S : x <= y

\* s.startsWith(p)
StartsWith(s, p) == Len(s) >= Len(p) /\ SubSeq(s, 1, Len(p)) = p

\* s.substring(i) with a 0-based i, i.e. the characters after the first i
Substring(s, i) == SubSeq(s, i + 1, Len(s))

\* whether p occurs in s at the 1-based position i
OccursAt(s, i, p) == i >= 1 /\ i + Len(p) - 1 <= Len(s) /\ SubSeq(s, i, i + Len(p) - 1) = p

\* s.includes(p)
Includes(s, p) == \E i \in 1..(Len(s) + 1) : OccursAt(s, i, p)

\* the first position from i on, going right, that holds no white space
RECURSIVE SkipWhite(_, _)
SkipWhite(s, i) == IF i <= Len(s) /\ IsWhite(s[i]) THEN SkipWhite(s, i + 1) ELSE i

\* the first position from i on, going left, that holds no white space
RECURSIVE SkipWhiteBack(_, _)
SkipWhiteBack(s, i) == IF i >= 1 /\ IsWhite(s[i]) THEN SkipWhiteBack(s, i - 1) ELSE i

\* s.trim()
Trim(s) == SubSeq(s, SkipWhite(s, 1), SkipWhiteBack(s, Len(s)))

\* s.split('\n'): the pieces between the line breaks ("" gives one empty piece)
RECURSIVE SplitFrom(_, _)
SplitFrom(s, from) ==
    LET brk == {i \in from..Len(s) : s[i] = NL}
    IN  IF brk = {} THEN <<SubSeq(s, from, Len(s))>>
        ELSE <<SubSeq(s, from, Min(brk) - 1)>> \o SplitFrom(s, Min(brk) + 1)

SplitLines(s) == SplitFrom(s, 1)

\* lines.join('\n')
RECURSIVE Join(_)
Join(ls) ==
    IF ls = <<>> THEN <<>>
    ELSE IF Len(ls) = 1 THEN ls[1]
    ELSE ls[1] \o <<NL>> \o Join(Tail(ls))

\* the concatenation of a sequence of strings
RECURSIVE Concat(_)
Concat(ss) == IF ss = <<>> THEN <<>> ELSE ss[1] \o Concat(Tail(ss))

UpperCase == <<"A", "B", "C", "D", "E", "F", "G", "H", "I", "J", "K", "L", "M",
               "N", "O", "P", "Q", "R", "S", "T", "U", "V", "W", "X", "Y", "Z">>

LowerCase == <<"a", "b", "c", "d", "e", "f", "g", "h", "i", "j", "k", "l", "m",
               "n", "o", "p", "q", "r", "s", "t", "u", "v", "w", "x", "y", "z">>

Digits == <<"0", "1", "2", "3", "4", "5", "6", "7", "8", "9">>

Range(f) == {f[i] : i \in DOMAIN f}

UpperSet == Range(UpperCase)

\* the lower-case letter of each upper-case letter
LowerOf == [c \in UpperSet |-> LowerCase[CHOOSE i \in 1..26 : UpperCase[i] = c]]

LowerChar(c) == IF c \in UpperSet THEN LowerOf[c] ELSE c

\* s.toLowerCase()
ToLowerCase(s) == [i \in 1..Len(s) |-> LowerChar(s[i])]

\* `${n}` for a number n >= 0
RECURSIVE NumToString(_)
NumToString(n) ==
    IF n < 10 THEN <<Digits[n + 1]>>
    ELSE NumToString(n \div 10) \o <<Digits[(n % 10) + 1]>>

---------------------------------------------------------------------------
(* parseMarkdown (part_003 lines 12-82) *)

API_BASE == <<"h", "t", "t", "p", ":", "/", "/", "l", "o", "c", "a", "l", "h", "o", "s", "t", ":", "8", "0", "0", "0">>

\* 'reports/'
ReportsSlash == <<"r", "e", "p", "o", "r", "t", "s", "/">>

\* 'reports\\'
ReportsBackslash == <<"r", "e", "p", "o", "r", "t", "s", "\\">>

\* '<div class="report-image-container">'
DivOpen == <<"<", "d", "i", "v", " ", "c", "l", "a", "s", "s", "=", "\"", "r", "e", "p", "o", "r", "t", "-", "i", "m", "a", "g", "e", "-", "c", "o", "n", "t", "a", "i", "n", "e", "r", "\"", ">">>

\* '<img src="'
ImgOpen == <<"<", "i", "m", "g", " ", "s", "r", "c", "=", "\"">>

\* '" alt="'
ImgAlt == <<"\"", " ", "a", "l", "t", "=", "\"">>

\* '" class="report-image" />'
ImgClose == <<"\"", " ", "c", "l", "a", "s", "s", "=", "\"", "r", "e", "p", "o", "r", "t", "-", "i", "m", "a", "g", "e", "\"", " ", "/", ">">>

\* '<p class="image-caption">'
CaptionOpen == <<"<", "p", " ", "c", "l", "a", "s", "s", "=", "\"", "i", "m", "a", "g", "e", "-", "c", "a", "p", "t", "i", "o", "n", "\"", ">">>

POpen == <<"<", "p", ">">>

PClose == <<"<", "/", "p", ">">>

DivClose == <<"<", "/", "d", "i", "v", ">">>

\* the indentation of lines 30-31 and of line 32 inside the template literal
Indent12 == <<" ", " ", " ", " ", " ", " ", " ", " ", " ", " ", " ", " ">>

Indent8 == <<" ", " ", " ", " ", " ", " ", " ", " ">>

\* '<a href="'
AOpen == <<"<", "a", " ", "h", "r", "e", "f", "=", "\"">>

\* '" target="_blank" rel="noopener noreferrer">'
AAttrs == <<"\"", " ", "t", "a", "r", "g", "e", "t", "=", "\"", "_", "b", "l", "a", "n", "k", "\"", " ", "r", "e", "l", "=", "\"", "n", "o", "o", "p", "e", "n", "e", "r", " ", "n", "o", "r", "e", "f", "e", "r", "r", "e", "r", "\"", ">">>

AClose == <<"<", "/", "a", ">">>

Ellipsis == <<".", ".", ".">>

StrongOpen == <<"<", "s", "t", "r", "o", "n", "g", ">">>

StrongClose == <<"<", "/", "s", "t", "r", "o", "n", "g", ">">>

EmOpen == <<"<", "e", "m", ">">>

EmClose == <<"<", "/", "e", "m", ">">>

UlOpen == <<"<", "u", "l", ">">>

UlClose == <<"<", "/", "u", "l", ">">>

LiOpen == <<"<", "l", "i", ">">>

LiClose == <<"<", "/", "l", "i", ">">>

\* '<div' and '<h' (line 70)
DivPrefix == <<"<", "d", "i", "v">>

HPrefix == <<"<", "h">>

\* n '#' characters
Hashes(n) == [i \in 1..n |-> "#"]

\* '<hn>' and '</hn>'
HOpen(n) == <<"<", "h", NumToString(n)[1], ">">>

HClose(n) == <<"<", "/", "h", NumToString(n)[1], ">">>

\* one line under the pattern /^#{n,} (.+)$/: n or more '#'
HeaderLineLoose(line, n) ==
    LET h == IF line # <<>> /\ line[1] = "#"
             THEN Min({i \in 1..Len(line) + 1 : i > Len(line) \/ line[i] # "#"}) - 1
             ELSE 0
    IN  IF h >= n /\ Len(line) > h + 1 /\ line[h + 1] = " "
        THEN HOpen(n) \o Substring(line, h + 1) \o HClose(n)
        ELSE line

\* one line under html.replace(/^#{n} (.+)$/gm, '<hn>$1</hn>'): the pattern
\* takes a whole line that starts with n '#' and a space and goes on
HeaderLine(line, n) ==
    IF StartsWith(line, Hashes(n) \o <<" ">>) /\ Len(line) > n + 1
    THEN HOpen(n) \o Substring(line, n + 1) \o HClose(n)
    ELSE line

\* html.replace(/^#{n} (.+)$/gm, '<hn>$1</hn>'): ^ and $ match at the line
\* breaks and . takes no line break, so the replacement works line by line
ReplaceHeaders(html, n) ==
    LET lines == SplitLines(html)
    IN  Join([i \in 1..Len(lines) |-> HeaderLine(lines[i], n)])

\* the first position j >= from at which p occurs, with no line break in
\* s[from..j-1]; 0 when there is none (what .*? followed by p finds)
FirstOnLine(s, from, p) ==
    LET brk == {m \in from..Len(s) : s[m] = NL}
        end == IF brk = {} THEN Len(s) ELSE Min(brk)
        hit == {j \in from..end : OccursAt(s, j, p)}
    IN  IF hit = {} THEN 0 ELSE Min(hit)

\* the match of /\[(.*?)\]\((.*?)\)/ that starts with the '[' at position i:
\* <<j, k>>, "](" at j and ")" at k, or <<>>. The first "](" of the line
\* decides: a ")" after a later "](" would be a ")" after the first as well.
BracketMatch(s, i) ==
    LET j == FirstOnLine(s, i + 1, <<"]", "(">>)
        k == IF j = 0 THEN 0 ELSE FirstOnLine(s, j + 2, <<")">>)
    IN  IF i <= Len(s) /\ s[i] = "[" /\ j > 0 /\ k > 0 THEN <<j, k>> ELSE <<>>

\* url.replace(/\\/g, '/')
SlashAll(url) == [i \in 1..Len(url) |-> IF url[i] = "\\" THEN "/" ELSE url[i]]

\* the callback of the image replacement (lines 24-33)
ImageHtml(alt, url) ==
    LET finalUrl == IF StartsWith(url, ReportsSlash) \/ StartsWith(url, ReportsBackslash)
                    THEN API_BASE \o <<"/">> \o SlashAll(url)
                    ELSE url
    IN  DivOpen \o <<NL>>
        \o Indent12 \o ImgOpen \o finalUrl \o ImgAlt \o alt \o ImgClose \o <<NL>>
        \o Indent12 \o CaptionOpen \o alt \o PClose \o <<NL>>
        \o Indent8 \o DivClose

\* the match of /!\[(.*?)\]\((.*?)\)/ that starts at position i, or <<>>
ImageMatch(s, i) == IF s[i] = "!" THEN BracketMatch(s, i + 1) ELSE <<>>

\* html.replace(/!\[(.*?)\]\((.*?)\)/g, ...) from position i on: the matches
\* are taken from the left, each search starting after the match before
RECURSIVE ReplaceImagesFrom(_, _)
ReplaceImagesFrom(s, i) ==
    LET starts == {p \in i..Len(s) : ImageMatch(s, p) # <<>>}
    IN  IF starts = {} THEN SubSeq(s, i, Len(s))
        ELSE LET p == Min(starts)
                 m == ImageMatch(s, p)
             IN  SubSeq(s, i, p - 1)
                 \o ImageHtml(SubSeq(s, p + 2, m[1] - 1), SubSeq(s, m[1] + 2, m[2] - 1))
                 \o ReplaceImagesFrom(s, m[2] + 1)

ReplaceImages(html) == ReplaceImagesFrom(html, 1)

\* the callback with the test text.length > 77
LinkHtmlEarly(text, url) ==
    LET displayedText == IF Len(text) > LinkTextKept
                         THEN SubSeq(text, 1, LinkTextKept) \o Ellipsis
                         ELSE text
    IN  AOpen \o url \o AAttrs \o displayedText \o AClose

\* the callback of the link replacement (lines 36-42)
LinkHtml(text, url) ==
    LET displayedText == IF Len(text) > LinkTextMax
                         THEN SubSeq(text, 1, LinkTextKept) \o Ellipsis
                         ELSE text
    IN  AOpen \o url \o AAttrs \o displayedText \o AClose

\* html.replace(/\[(.*?)\]\((.*?)\)/g, ...) from position i on
RECURSIVE ReplaceLinksFrom(_, _)
ReplaceLinksFrom(s, i) ==
    LET starts == {p \in i..Len(s) : BracketMatch(s, p) # <<>>}
    IN  IF starts = {} THEN SubSeq(s, i, Len(s))
        ELSE LET p == Min(starts)
                 m == BracketMatch(s, p)
             IN  SubSeq(s, i, p - 1)
                 \o LinkHtml(SubSeq(s, p + 1, m[1] - 1), SubSeq(s, m[1] + 2, m[2] - 1))
                 \o ReplaceLinksFrom(s, m[2] + 1)

ReplaceLinks(html) == ReplaceLinksFrom(html, 1)

\* the match of mark (.+?) mark that starts at position i, mark being "**" or
\* "*": the position of the closing mark, or 0. The span between the marks
\* has at least one character and no line break.
SpanMatch(s, i, mark) ==
    LET n == Len(mark)
    IN  IF OccursAt(s, i, mark) /\ i + n <= Len(s) /\ s[i + n] # NL
        THEN FirstOnLine(s, i + n + 1, mark)
        ELSE 0

\* html.replace(/mark(.+?)mark/g, open + '$1' + close) from position i on
RECURSIVE ReplaceSpansFrom(_, _, _, _, _)
ReplaceSpansFrom(s, i, mark, open, close) ==
    LET starts == {p \in i..Len(s) : SpanMatch(s, p, mark) > 0}
    IN  IF starts = {} THEN SubSeq(s, i, Len(s))
        ELSE LET p == Min(starts)
                 j == SpanMatch(s, p, mark)
             IN  SubSeq(s, i, p - 1)
                 \o open \o SubSeq(s, p + Len(mark), j - 1) \o close
                 \o ReplaceSpansFrom(s, j + Len(mark), mark, open, close)

\* line 45
ReplaceBold(html) == ReplaceSpansFrom(html, 1, <<"*", "*">>, StrongOpen, StrongClose)

\* line 46
ReplaceItalic(html) == ReplaceSpansFrom(html, 1, <<"*">>, EmOpen, EmClose)

\* italic before bold
InlineTransformItalicFirst(text) ==
    ReplaceBold(ReplaceItalic(ReplaceLinks(ReplaceImages(
        ReplaceHeaders(ReplaceHeaders(ReplaceHeaders(text, 3), 2), 1)))))

\* lines 13-46: headers, images, links, bold, italic, in this order
InlineTransform(text) ==
    ReplaceItalic(ReplaceBold(ReplaceLinks(ReplaceImages(
        ReplaceHeaders(ReplaceHeaders(ReplaceHeaders(text, 3), 2), 1)))))

\* line 56
IsListLine(trimmed) ==
    StartsWith(trimmed, <<"-", " ">>) \/ StartsWith(trimmed, <<"*", " ">>)

\* line 70 without the test for '<h'
IsPreformedDivOnly(trimmed) == StartsWith(trimmed, DivPrefix)

\* line 70
IsPreformed(trimmed) == StartsWith(trimmed, DivPrefix) \/ StartsWith(trimmed, HPrefix)

\* one pass of the loop that leaves a list without its '</ul>'
SegmentLineNoClose(line, in) ==
    LET trimmed == Trim(line)
    IN  IF IsListLine(trimmed)
        THEN [pushed |-> (IF ~in THEN <<UlOpen>> ELSE <<>>)
                         \o <<LiOpen \o Substring(trimmed, 2) \o LiClose>>,
              inList |-> TRUE]
        ELSE [pushed |-> (IF trimmed = <<>> THEN <<>>
                          ELSE IF IsPreformed(trimmed) THEN <<line>>
                          ELSE <<POpen \o line \o PClose>>),
              inList |-> in]

\* one pass of the loop that steps over a blank line without closing the list
SegmentLineBlankKeeps(line, in) ==
    LET trimmed == Trim(line)
    IN  IF IsListLine(trimmed)
        THEN [pushed |-> (IF ~in THEN <<UlOpen>> ELSE <<>>)
                         \o <<LiOpen \o Substring(trimmed, 2) \o LiClose>>,
              inList |-> TRUE]
        ELSE IF trimmed = <<>> THEN [pushed |-> <<>>, inList |-> in]
        ELSE [pushed |-> (IF in THEN <<UlClose>> ELSE <<>>)
                         \o (IF IsPreformed(trimmed) THEN <<line>>
                             ELSE <<POpen \o line \o PClose>>),
              inList |-> FALSE]

\* one pass of the loop that opens a list at every list line
SegmentLineAlwaysOpen(line, in) ==
    LET trimmed == Trim(line)
    IN  IF IsListLine(trimmed)
        THEN [pushed |-> <<UlOpen, LiOpen \o Substring(trimmed, 2) \o LiClose>>,
              inList |-> TRUE]
        ELSE [pushed |-> (IF in THEN <<UlClose>> ELSE <<>>)
                         \o (IF trimmed = <<>> THEN <<>>
                             ELSE IF IsPreformed(trimmed) THEN <<line>>
                             ELSE <<POpen \o line \o PClose>>),
              inList |-> FALSE]

\* one pass of the for loop (lines 53-77) over line, entered with the flag
\* inList: what is pushed to processed, and the flag afterwards
SegmentLine(line, in) ==
    LET trimmed == Trim(line)
    IN  IF IsListLine(trimmed)
        THEN [pushed |-> (IF ~in THEN <<UlOpen>> ELSE <<>>)
                         \o <<LiOpen \o Substring(trimmed, 2) \o LiClose>>,
              inList |-> TRUE]
        ELSE [pushed |-> (IF in THEN <<UlClose>> ELSE <<>>)
                         \o (IF trimmed = <<>> THEN <<>>
                             ELSE IF IsPreformed(trimmed) THEN <<line>>
                             ELSE <<POpen \o line \o PClose>>),
              inList |-> FALSE]

\* the for loop from line number k on, as [pushed, inList]
RECURSIVE SegmentFrom(_, _, _)
SegmentFrom(lines, k, in) ==
    IF k > Len(lines) THEN [pushed |-> <<>>, inList |-> in]
    ELSE LET one == SegmentLine(lines[k], in)
             rest == SegmentFrom(lines, k + 1, one.inList)
         IN  [pushed |-> one.pushed \o rest.pushed, inList |-> rest.inList]

\* line 79 left out
CloseListNever(in) == <<>>

\* line 79
CloseList(in) == IF in THEN <<UlClose>> ELSE <<>>

\* lines 49-81
ListPass(html) ==
    LET loop == SegmentFrom(SplitLines(html), 1, FALSE)
    IN  Join(loop.pushed \o CloseList(loop.inList))

parseMarkdown(text) == ListPass(InlineTransform(text))

---------------------------------------------------------------------------
(* parseSections (part_003 lines 91-118) *)

Hash == "#"

H2Prefix == <<"#", "#", " ">>

SectionWord == <<"S", "e", "c", "t", "i", "o", "n", " ">>

SectionIdWord == <<"s", "e", "c", "t", "i", "o", "n", "-">>

\* whether the 1-based position i of s is the start of a line (what ^ matches
\* under the m flag)
LineStart(s, i) == i = 1 \/ (i >= 2 /\ i <= Len(s) + 1 /\ s[i - 1] = NL)

\* the number of '#' characters of s from position i on
RECURSIVE HashRun(_, _)
HashRun(s, i) == IF i <= Len(s) /\ s[i] = Hash THEN 1 + HashRun(s, i + 1) ELSE 0

\* /^#+ .+/m matches at position i: a line start, one or more '#', a space and
\* at least one more character of the line
HeaderAt(s, i) ==
    LET h == HashRun(s, i)
    IN  /\ LineStart(s, i)
        /\ h >= 1
        /\ i + h + 1 <= Len(s)
        /\ s[i + h] = " "
        /\ s[i + h + 1] # NL

\* line 94 left out
headerMatchesAlways(content) == TRUE

\* content.match(/^#+ .+/gm) is not null
headerMatches(content) == \E i \in 1..Len(content) : HeaderAt(content, i)

\* the split without the m flag: ^ matches at the start of the string only
SplitPointsNoMultiline(content) == {}

\* the positions at which content.split(/(?=^## )/gm) cuts: the lookahead
\* matches at a line start followed by "## "; a match at the very start of the
\* string cuts nothing
SplitPoints(content) ==
    {q \in 2..Len(content) : LineStart(content, q) /\ OccursAt(content, q, H2Prefix)}

RECURSIVE CutAt(_, _, _)
CutAt(s, from, points) ==
    IF points = {} THEN <<SubSeq(s, from, Len(s))>>
    ELSE LET q == Min(points)
         IN  <<SubSeq(s, from, q - 1)>> \o CutAt(s, q, points \ {q})

\* content.split(/(?=^## )/gm)
SplitSections(content) == CutAt(content, 1, SplitPoints(content))

\* lines.find(line => line.startsWith(p)): <<the first such line>>, or <<>> for
\* undefined
FindLine(lines, p) ==
    LET hit == {i \in 1..Len(lines) : StartsWith(lines[i], p)}
    IN  IF hit = {} THEN <<>> ELSE <<lines[Min(hit)]>>

\* t.replace(/^#+\s*/, ''): the leading '#' run (if any) and the white space
\* after it are dropped
StripHashes(t) ==
    LET h == HashRun(t, 1)
    IN  IF h = 0 THEN t ELSE SubSeq(t, SkipWhite(t, h + 1), Len(t))

\* t.replace(/\*\*/g, ''): every "**" is dropped, scanning from the left
RECURSIVE StripBold(_)
StripBold(t) ==
    IF t = <<>> THEN <<>>
    ELSE IF Len(t) >= 2 /\ t[1] = "*" /\ t[2] = "*" THEN StripBold(SubSeq(t, 3, Len(t)))
    ELSE <<t[1]>> \o StripBold(Tail(t))

\* lines 101-105
TitleOf(lines) ==
    LET l2 == FindLine(lines, <<Hash, Hash>>)
        titleLine == IF l2 # <<>> THEN l2 ELSE FindLine(lines, <<Hash>>)
    IN  IF titleLine # <<>> THEN Trim(StripBold(StripHashes(titleLine[1]))) ELSE <<>>

NotHashLine(line) == ~StartsWith(line, <<Hash>>)

\* line 107
BodyOf(lines) == Trim(Join(SelectSeq(lines, NotHashLine)))

AlnumSet == Range(LowerCase) \cup Range(Digits)

IsAlnum(c) == c \in AlnumSet

\* t.replace(/[^a-z0-9]+/g, '-')
RECURSIVE Hyphenate(_)
Hyphenate(t) ==
    IF t = <<>> THEN <<>>
    ELSE IF IsAlnum(t[1]) THEN <<t[1]>> \o Hyphenate(Tail(t))
    ELSE LET stop == {i \in 1..Len(t) : IsAlnum(t[i])}
         IN  <<"-">> \o (IF stop = {} THEN <<>> ELSE Hyphenate(SubSeq(t, Min(stop), Len(t))))

\* the id with the index of the chunk appended
IdOfIndexed(title, index) ==
    Hyphenate(ToLowerCase(title)) \o <<"-">> \o NumToString(index)

\* line 113
IdOf(title, index) ==
    LET slug == Hyphenate(ToLowerCase(title))
    IN  IF slug # <<>> THEN slug ELSE SectionIdWord \o NumToString(index)

\* the callback with the 0-based index in the fallback title
MapSectionZeroBased(section, index) ==
    LET lines == SplitLines(Trim(section))
        t0 == TitleOf(lines)
        body == BodyOf(lines)
        title == IF t0 = <<>> /\ body # <<>> THEN SectionWord \o NumToString(index) ELSE t0
    IN  [id |-> IdOf(title, index), title |-> title, body |-> body, chunk |-> index]

\* the callback of sections.map (lines 99-116) for the chunk at the 0-based
\* index; the field chunk is not in the source: it records which chunk the
\* Section was made from
MapSection(section, index) ==
    LET lines == SplitLines(Trim(section))
        t0 == TitleOf(lines)
        body == BodyOf(lines)
        title == IF t0 = <<>> /\ body # <<>> THEN SectionWord \o NumToString(index + 1) ELSE t0
    IN  [id |-> IdOf(title, index), title |-> title, body |-> body, chunk |-> index]

\* the filter without the length test
KeepSectionTitled(s) == s.title # <<>>

\* the callback of .filter (line 117)
KeepSection(s) == Len(s.body) > BodyMinLength /\ s.title # <<>>

\* the sections in the reverse order
parseSectionsReversed(content) ==
    IF ~headerMatches(content) THEN <<>>
    ELSE LET sections == SplitSections(content)
             mapped == [k \in 1..Len(sections) |-> MapSection(sections[k], k - 1)]
             kept == SelectSeq(mapped, KeepSection)
         IN  [k \in 1..Len(kept) |-> kept[Len(kept) + 1 - k]]

parseSections(content) ==
    IF ~headerMatches(content) THEN <<>>
    ELSE LET sections == SplitSections(content)
             mapped == [k \in 1..Len(sections) |-> MapSection(sections[k], k - 1)]
         IN  SelectSeq(mapped, KeepSection)

---------------------------------------------------------------------------
(* The Report page (part_003 lines 121-324) *)

\* 'overview' and 'full' (lines 127, 227, 244)
OverviewTab == <<"o", "v", "e", "r", "v", "i", "e", "w">>

FullTab == <<"f", "u", "l", "l">>

Executive == <<"e", "x", "e", "c", "u", "t", "i", "v", "e">>

Summary == <<"s", "u", "m", "m", "a", "r", "y">>

\* the callback without toLowerCase
IsSummaryTitleCaseSensitive(s) == Includes(s.title, Executive) \/ Includes(s.title, Summary)

\* the callback of sections.find (lines 181-184)
IsSummaryTitle(s) ==
    Includes(ToLowerCase(s.title), Executive) \/ Includes(ToLowerCase(s.title), Summary)

\* sections.find(...): <<the first section the callback accepts>>, or <<>> for
\* undefined
executiveSummary(sections) ==
    LET hit == {i \in 1..Len(sections) : IsSummaryTitle(sections[i])}
    IN  IF hit = {} THEN <<>> ELSE <<sections[Min(hit)]>>

\* line 186: sections.filter(s => s.id !== executiveSummary?.id)
filteredSections(sections) ==
    LET exec == executiveSummary(sections)
        Other(s) == exec = <<>> \/ s.id # exec[1].id
    IN  SelectSeq(sections, Other)

\* which of the three returns of the component is rendered (lines 155-188)
View ==
    IF loading THEN "loading"
    ELSE IF error # Null \/ report = <<>> THEN "error"
    ELSE "report"

\* the sections of the report on display
Sections == IF report = <<>> THEN <<>> ELSE parseSections(report[1].content)

\* the values the tab buttons set (lines 225-247)
TabButtons == {OverviewTab, FullTab} \cup {s.id : s \in Range(filteredSections(Sections))}

\* the content area (lines 252-318): the panels displayed, top to bottom, each
\* with the HTML fragments it holds
ContentArea ==
    LET sections == Sections
        exec == executiveSummary(sections)
        Active(s) == activeTab = s.id
        shown == SelectSeq(filteredSections(sections), Active)
    IN  (IF activeTab = OverviewTab
         THEN <<[panel |-> "overview", chunk |-> -1,
                 fragments |-> IF exec # <<>> THEN <<parseMarkdown(exec[1].body)>> ELSE <<>>]>>
         ELSE <<>>)
        \o [i \in 1..Len(shown) |->
               [panel |-> "section", chunk |-> shown[i].chunk,
                fragments |-> <<parseMarkdown(shown[i].body)>>]]
        \o (IF activeTab = FullTab
            THEN <<[panel |-> "full", chunk |-> -1,
                    fragments |-> <<parseMarkdown(report[1].content)>>]>>
            ELSE <<>>)

\* the lines the report documents are made of
DocPool ==
    { <<"#", "#", " ", "R", "i", "s", "k", "s">>,
      <<"#", "#", " ", "S", "u", "m", "m", "a", "r", "y">>,
      <<"#", "#", " ", "E", "X", "E", "C", "U", "T", "I", "V", "E">>,
      <<"#", " ", "I", "n", "t", "r", "o">>,
      <<"l", "o", "n", "g", " ", "b", "o", "d", "y", " ", "t", "e", "x", "t">>,
      <<"s", "h", "o", "r", "t">>,
      <<>> }

\* the texts of at most n lines of pool
Texts(pool, n) == {Join(ls) : ls \in UNION {[1..k -> pool] : k \in 0..n}}

\* the report documents the server may answer with
Docs == Texts(DocPool, MaxDocLines)

\* the route parameter
ReportIds == {"r1"}

ReportInit ==
    /\ reportId \in ReportIds
    /\ report = <<>>
    /\ loading = TRUE
    /\ error = Null
    /\ activeTab = OverviewTab
    /\ effectDue = TRUE
    /\ pending = EmptyBag
    /\ tabClicked = FALSE

\* the effect of lines 129-133 runs fetchReport up to its await (lines 136-139)
RunEffect ==
    /\ effectDue
    /\ effectDue' = FALSE
    /\ loading' = TRUE
    /\ error' = Null
    /\ pending' = pending (+) SetToBag({reportId})
    /\ UNCHANGED <<reportId, report, activeTab, tabClicked>>

\* apiService.getReport resolves with one of docs (lines 140, 144)
FetchResolveFrom(docs) ==
    \E id \in BagToSet(pending), content \in docs :
        /\ pending' = pending (-) SetToBag({id})
        /\ report' = <<[report_id |-> id, content |-> content]>>
        /\ loading' = FALSE
        /\ UNCHANGED <<reportId, error, activeTab, effectDue, tabClicked>>

\* apiService.getReport resolves with a document (lines 140, 144)
FetchResolve == FetchResolveFrom(Docs)

\* the lines of the documents with headings named like the fixed tabs
TabPool ==
    { <<"#", "#", " ", "O", "v", "e", "r", "v", "i", "e", "w">>,
      <<"#", "#", " ", "F", "u", "l", "l">>,
      <<"#", "#", " ", "R", "i", "s", "k", "s">>,
      <<"l", "o", "n", "g", " ", "b", "o", "d", "y", " ", "t", "e", "x", "t">> }

TabDocs == Texts(TabPool, MaxDocLines)

\* apiService.getReport rejects (lines 141-144)
FetchReject ==
    \E id \in BagToSet(pending) :
        /\ pending' = pending (-) SetToBag({id})
        /\ error' = "Failed to load report"
        /\ loading' = FALSE
        /\ UNCHANGED <<reportId, report, activeTab, effectDue, tabClicked>>

\* the report ids of the route /report/:reportId
RouteIds == {"r1", "r2"}

\* the document the server answers with, whatever the id
RouteDocs == {<<"#", "#", " ", "R", "i", "s", "k", "s", NL>> \o
              <<"l", "o", "n", "g", " ", "b", "o", "d", "y", " ", "t", "e", "x", "t">>}

\* the route changes to another report: the component is rendered with the
\* new reportId (line 122) and the effect of lines 129-133 is due again; the
\* effect of the render before has run by then
ChangeReportId ==
    /\ ~effectDue
    /\ BagCardinality(pending) < MaxPending
    /\ \E id \in RouteIds \ {reportId} : reportId' = id
    /\ effectDue' = TRUE
    /\ UNCHANGED <<report, loading, error, activeTab, pending, tabClicked>>

\* a click on one of the tab buttons (lines 227, 236, 244)
ClickTab ==
    /\ View = "report"
    /\ \E tab \in TabButtons :
        /\ activeTab' = tab
        /\ tabClicked' = TRUE
    /\ UNCHANGED <<reportId, report, loading, error, effectDue, pending>>

---------------------------------------------------------------------------
(* parseMarkdown, statement by statement *)

\* the lines the texts given to parseMarkdown are made of
MdPool ==
    { <<"-", " ", "a">>,
      <<"*", " ", "b">>,
      <<"t", "e", "x", "t">>,
      <<"#", "#", " ", "T">>,
      <<"!", "[", "c", "]", "(", "r", "e", "p", "o", "r", "t", "s", "/", "i", ".", "p", "n", "g", ")">>,
      <<" ">>,
      <<>> }

MdTexts == Texts(MdPool, MaxMdLines)

MdIdle ==
    /\ mdText = <<>>
    /\ mdLines = <<>>
    /\ mdNext = 1
    /\ inList = FALSE
    /\ processed = <<>>
    /\ mdResult = <<>>
    /\ mdPc = "idle"

\* parseMarkdown is called with one of texts
MdInitFrom(texts) ==
    /\ mdText \in texts
    /\ mdLines = <<>>
    /\ mdNext = 1
    /\ inList = FALSE
    /\ processed = <<>>
    /\ mdResult = <<>>
    /\ mdPc = "inline"

\* parseMarkdown is called with a text
MdInit == MdInitFrom(MdTexts)

\* text of n characters: the digits 1, 2, ..., 9, 0, 1, ...
TextOfLength(n) == [i \in 1..n |-> Digits[(i % 10) + 1]]

\* '[text](url)'
LinkReference(text, url) == <<"[">> \o text \o <<"]", "(">> \o url \o <<")">>

\* the urls of the link references
LinkUrls ==
    { <<"u">>,
      <<"h", "t", "t", "p", ":", "/", "/", "a", ".", "b", "/", "c", "?", "d", "=", "1">> }

\* the texts with one link reference, for every length of the link text
LinkTexts ==
    {LinkReference(TextOfLength(n), url) : n \in 0..MaxLinkText, url \in LinkUrls}

\* lines 13-51
MdInline ==
    /\ mdPc = "inline"
    /\ mdLines' = SplitLines(InlineTransform(mdText))
    /\ mdNext' = 1
    /\ inList' = FALSE
    /\ processed' = <<>>
    /\ mdPc' = "loop"
    /\ UNCHANGED <<mdText, mdResult>>

\* one pass of the loop of lines 53-77
MdLine ==
    /\ mdPc = "loop"
    /\ mdNext <= Len(mdLines)
    /\ LET one == SegmentLine(mdLines[mdNext], inList)
       IN  /\ processed' = processed \o one.pushed
           /\ inList' = one.inList
    /\ mdNext' = mdNext + 1
    /\ UNCHANGED <<mdText, mdLines, mdResult, mdPc>>

\* lines 79-81
MdReturn ==
    /\ mdPc = "loop"
    /\ mdNext > Len(mdLines)
    /\ processed' = processed \o CloseList(inList)
    /\ mdResult' = Join(processed')
    /\ mdPc' = "done"
    /\ UNCHANGED <<mdText, mdLines, mdNext, inList>>

\* the lines of the texts with list lines: list lines of both markers with
\* and without an italic span after the marker, text, and an empty line
MarkerPool ==
    { <<"*", " ", "c", " ", "*", "d", "*">>,
      <<"-", " ", "c", " ", "*", "d", "*">>,
      <<"*", " ", "e">>,
      <<"t", "e", "x", "t">>,
      <<>> }

MarkerTexts == Texts(MarkerPool, MaxMdLines)

\* what follows the '#' and the space of a line
HeadingBodies ==
    { <<"T">>, <<"A", " ", "b">>, <<"x", " ", "#", "1">> }

\* the lines of the texts with '#' lines: one to MaxHashes '#', a space and
\* text; and a line of plain text
HeadingPool ==
    {Hashes(n) \o <<" ">> \o body : n \in 1..MaxHashes, body \in HeadingBodies}
        \cup {<<"t", "e", "x", "t">>}

HeadingTexts == Texts(HeadingPool, MaxHeadingLines)

\* before '**X**' '**' after
BoldText(before, X, after) == before \o <<"*", "*">> \o X \o <<"*", "*">> \o after

\* what stands before the bold span: nothing, words, a list marker, an
\* italic span
BoldBefore ==
    { <<>>, <<"a", " ">>, <<"*", " ">>, <<"*", "i", "*", " ">> }

\* the X of the bold span
BoldInner ==
    { <<"b">>, <<"b", " ", "c">>, <<" ", "b", " ">> }

\* what stands after the bold span: nothing, words, an italic span, another
\* bold span
BoldAfter ==
    { <<>>, <<" ", "c">>, <<" ", "*", "i", "*">>, <<" ", "*", "*", "d", "*", "*">> }

\* the texts with a bold span
BoldTexts ==
    {BoldText(before, X, after) : before \in BoldBefore, X \in BoldInner, after \in BoldAfter}

\* '![alt](url)'
ImageReference(alt, url) == <<"!", "[">> \o alt \o <<"]", "(">> \o url \o <<")">>

\* the alt texts of the image references
ImageAlts ==
    { <<"d", "i", "a", "g", "r", "a", "m">>,
      <<"c", " ", "d">>,
      <<>> }

\* the urls of the image references
ImageUrls ==
    { <<"r", "e", "p", "o", "r", "t", "s", "/", "i", "m", "g", "1", ".", "p", "n", "g">>,
      <<"r", "e", "p", "o", "r", "t", "s", "\\", "a", "\\", "b", ".", "p", "n", "g">>,
      <<"h", "t", "t", "p", ":", "/", "/", "e", "/", "i", ".", "p", "n", "g">>,
      <<"i", "m", "g", "/", "r", "e", "p", "o", "r", "t", "s", "/", "x", ".", "p", "n", "g">> }

\* the texts with one image reference
ImageTexts == {ImageReference(alt, url) : alt \in ImageAlts, url \in ImageUrls}

\* the values of import.meta.env.VITE_API_URL: not set, or the address of
\* the backend
EnvValues == {<<>>, <<<<"h", "t", "t", "p", ":", "/", "/", "x">>>>}

\* the base URL the front end is configured with (part_004 line 16):
\* import.meta.env.VITE_API_URL || 'http://localhost:8000'
API_BASE_URL ==
    IF VITE_API_URL # <<>> /\ VITE_API_URL[1] # <<>> THEN VITE_API_URL[1]
    ELSE <<"h", "t", "t", "p", ":", "/", "/", "l", "o", "c", "a", "l", "h", "o", "s", "t", ":", "8", "0", "0", "0">>

---------------------------------------------------------------------------
(* parseSections, statement by statement *)

\* the lines the contents given to parseSections are made of
SecPool ==
    { <<"#", "#", " ", "*", "*", "R", "i", "s", "k", "s", "*", "*">>,
      <<"#", " ", "I", "n", "t", "r", "o">>,
      <<"#", "#", "#", " ", "S", "u", "b">>,
      <<"#", "t", "a", "g", " ", "t", "e", "x", "t", " ", "h", "e", "r", "e">>,
      <<"l", "o", "n", "g", " ", "b", "o", "d", "y", " ", "t", "e", "x", "t">>,
      <<"s", "h", "o", "r", "t">>,
      <<"#", "#", " ", "!", "?">>,
      <<"#", "#", " ", " ">> }

SecContents == Texts(SecPool, MaxSecLines)

SecIdle ==
    /\ secContent = <<>>
    /\ secSections = <<>>
    /\ secNext = 1
    /\ secMapped = <<>>
    /\ secResult = <<>>
    /\ secPc = "idle"

\* parseSections is called with a content
SecInit ==
    /\ secContent \in SecContents
    /\ secSections = <<>>
    /\ secNext = 1
    /\ secMapped = <<>>
    /\ secResult = <<>>
    /\ secPc = "match"

\* lines 93-97
SecMatch ==
    /\ secPc = "match"
    /\ IF ~headerMatches(secContent)
       THEN /\ secResult' = <<>>
            /\ secPc' = "done"
            /\ UNCHANGED secSections
       ELSE /\ secSections' = SplitSections(secContent)
            /\ secPc' = "map"
            /\ UNCHANGED secResult
    /\ UNCHANGED <<secContent, secNext, secMapped>>

\* one call of the .map callback (lines 99-116)
SecMap ==
    /\ secPc = "map"
    /\ secNext <= Len(secSections)
    /\ secMapped' = Append(secMapped, MapSection(secSections[secNext], secNext - 1))
    /\ secNext' = secNext + 1
    /\ UNCHANGED <<secContent, secSections, secResult, secPc>>

\* the .filter and the return (line 117)
SecFilter ==
    /\ secPc = "map"
    /\ secNext > Len(secSections)
    /\ secResult' = SelectSeq(secMapped, KeepSection)
    /\ secPc' = "done"
    /\ UNCHANGED <<secContent, secSections, secNext, secMapped>>

---------------------------------------------------------------------------
(* The Research page (part_003 lines 328-559) *)

\* threshold of RESEARCH_TASKS, in the order of the array (lines 338-375)
RESEARCH_TASKS == <<10, 30, 50, 70, 85, 95>>

\* status?.progress || 0 (lines 514-518)
Progress == IF status = <<>> THEN 0 ELSE status[1].progress

\* line 514, for the task at the 1-based position index
isComplete(index) == Progress >= RESEARCH_TASKS[index]

\* lines 515-517 without the lower limit
isActiveNoLowerLimit(index) == Progress < RESEARCH_TASKS[index]

\* lines 515-517
isActive(index) ==
    /\ Progress >= (IF index > 1 THEN RESEARCH_TASKS[index - 1] ELSE 0)
    /\ Progress < RESEARCH_TASKS[index]

\* which return of the component is rendered (lines 456-471, 473)
ResearchView ==
    IF ~mounted THEN "none"
    ELSE IF researchError # Null THEN "error"
    ELSE "progress"

\* the values of the company parameter: absent, or a name
CompanyNames == {<<>>, <<"acme">>, <<"globex">>}

\* the progress values of the status responses of the page as a whole
PollProgress == {0, 50, MaxProgress}

\* ResearchStatus (types/index.ts lines 18-31), as far as pollStatus and the
\* task list read it
StatusData(progressValues) ==
    [status : {"pending", "running", "completed", "failed"},
     progress : progressValues,
     report_id : {<<>>, <<"r1">>}]

\* no Research page
ResearchIdle ==
    /\ companyName = <<>>
    /\ status = <<>>
    /\ researchError = Null
    /\ hasInitiated = FALSE
    /\ startDue = FALSE
    /\ mounted = FALSE
    /\ location = "report"
    /\ createInFlight = 0
    /\ statusInFlight = 0
    /\ pollTimers = 0
    /\ redirectTimers = 0
    /\ createRequests = 0
    /\ lastResponse = "none"
    /\ issuedAfter = "none"
    /\ afterUnmount = {}
    /\ effectRuns = 0

\* the Research page is mounted (lines 377-385)
ResearchInit ==
    /\ companyName \in CompanyNames
    /\ status = <<>>
    /\ researchError = Null
    /\ hasInitiated = FALSE
    /\ startDue = TRUE
    /\ mounted = TRUE
    /\ location = "research"
    /\ createInFlight = 0
    /\ statusInFlight = 0
    /\ pollTimers = 0
    /\ redirectTimers = 0
    /\ createRequests = 0
    /\ lastResponse = "none"
    /\ issuedAfter = "none"
    /\ afterUnmount = {}
    /\ effectRuns = 0

\* setState of a page that is no longer mounted changes nothing
SetIfMounted(old, new) == IF mounted THEN new ELSE old

\* the effect without the test of hasInitiatedRef
StartEffectEveryRun ==
    /\ startDue
    /\ mounted
    /\ startDue' = FALSE
    /\ effectRuns' = IF effectRuns < MaxEffectRuns THEN effectRuns + 1 ELSE effectRuns
    /\ IF companyName = <<>>
       THEN /\ location' = "home"
            /\ mounted' = FALSE
            /\ UNCHANGED <<hasInitiated, researchError, createInFlight, createRequests>>
       ELSE /\ hasInitiated' = TRUE
            /\ researchError' = Null
            /\ createInFlight' = createInFlight + 1
            /\ createRequests' = createRequests + 1
            /\ UNCHANGED <<location, mounted>>
    /\ UNCHANGED <<companyName, status, statusInFlight, pollTimers, redirectTimers,
                   lastResponse, issuedAfter, afterUnmount>>

\* the effect of lines 387-398, with startResearch up to its await (lines
\* 400-407)
StartEffect ==
    /\ startDue
    /\ mounted
    /\ startDue' = FALSE
    /\ effectRuns' = IF effectRuns < MaxEffectRuns THEN effectRuns + 1 ELSE effectRuns
    /\ IF companyName = <<>>
       THEN /\ location' = "home"
            /\ mounted' = FALSE
            /\ UNCHANGED <<hasInitiated, researchError, createInFlight, createRequests>>
       ELSE IF ~hasInitiated
       THEN /\ hasInitiated' = TRUE
            /\ researchError' = Null
            /\ createInFlight' = createInFlight + 1
            /\ createRequests' = createRequests + 1
            /\ UNCHANGED <<location, mounted>>
       ELSE UNCHANGED <<hasInitiated, researchError, createInFlight, createRequests,
                        location, mounted>>
    /\ UNCHANGED <<companyName, status, statusInFlight, pollTimers, redirectTimers,
                   lastResponse, issuedAfter, afterUnmount>>

\* the company or the ticker parameter changes: the effect is due again
\* (line 398)
ChangeParams ==
    /\ mounted
    /\ ~startDue
    /\ companyName' \in CompanyNames
    /\ startDue' = TRUE
    /\ UNCHANGED <<status, researchError, hasInitiated, mounted, location, createInFlight,
                   statusInFlight, pollTimers, redirectTimers, createRequests,
                   lastResponse, issuedAfter, afterUnmount>>
    /\ UNCHANGED effectRuns

\* pollStatus up to its await (lines 424-426): a status request is issued
IssueStatusRequest ==
    /\ statusInFlight' = statusInFlight + 1
    /\ issuedAfter' = lastResponse
    /\ afterUnmount' = IF mounted THEN afterUnmount ELSE afterUnmount \cup {"status request"}

\* apiService.createResearch resolves (lines 404-418)
CreateResolve ==
    /\ createInFlight > 0
    /\ createInFlight' = createInFlight - 1
    /\ IssueStatusRequest
    /\ UNCHANGED <<companyName, status, researchError, hasInitiated, startDue, mounted,
                   location, pollTimers, redirectTimers, createRequests, lastResponse>>
    /\ UNCHANGED effectRuns

\* apiService.createResearch rejects (lines 419-421)
CreateReject ==
    /\ createInFlight > 0
    /\ createInFlight' = createInFlight - 1
    /\ researchError' = SetIfMounted(researchError, "Failed to start research")
    /\ UNCHANGED <<companyName, status, hasInitiated, startDue, mounted, location,
                   statusInFlight, pollTimers, redirectTimers, createRequests,
                   lastResponse, issuedAfter, afterUnmount>>
    /\ UNCHANGED effectRuns

\* apiService.getResearchStatus resolves with a status of one of the
\* progress values (lines 426-437)
StatusResolveFrom(progressValues) ==
    /\ statusInFlight > 0
    /\ \E statusData \in StatusData(progressValues) :
        /\ statusInFlight' = statusInFlight - 1
        /\ status' = SetIfMounted(status, <<statusData>>)
        /\ lastResponse' = statusData.status
        /\ IF statusData.status = "completed" /\ statusData.report_id # <<>>
           THEN /\ redirectTimers' = redirectTimers + 1
                /\ UNCHANGED <<researchError, pollTimers>>
           ELSE IF statusData.status = "failed"
           THEN /\ researchError' = SetIfMounted(researchError, "Research failed")
                /\ UNCHANGED <<redirectTimers, pollTimers>>
           ELSE IF statusData.status \in {"pending", "running"}
           THEN /\ pollTimers' = pollTimers + 1
                /\ UNCHANGED <<researchError, redirectTimers>>
           ELSE UNCHANGED <<researchError, redirectTimers, pollTimers>>
    /\ UNCHANGED <<companyName, hasInitiated, startDue, mounted, location, createInFlight,
                   createRequests, issuedAfter, afterUnmount>>
    /\ UNCHANGED effectRuns

StatusResolve == StatusResolveFrom(PollProgress)

\* the catch of pollStatus with a retry after the failure
StatusRejectRetry ==
    /\ statusInFlight > 0
    /\ statusInFlight' = statusInFlight - 1
    /\ researchError' = SetIfMounted(researchError, "Failed to get research status")
    /\ lastResponse' = "rejected"
    /\ pollTimers' = pollTimers + 1
    /\ UNCHANGED <<companyName, status, hasInitiated, startDue, mounted, location,
                   createInFlight, redirectTimers, createRequests,
                   issuedAfter, afterUnmount, effectRuns>>

\* apiService.getResearchStatus rejects (lines 438-440)
StatusReject ==
    /\ statusInFlight > 0
    /\ statusInFlight' = statusInFlight - 1
    /\ researchError' = SetIfMounted(researchError, "Failed to get research status")
    /\ lastResponse' = "rejected"
    /\ UNCHANGED <<companyName, status, hasInitiated, startDue, mounted, location,
                   createInFlight, pollTimers, redirectTimers, createRequests,
                   issuedAfter, afterUnmount>>
    /\ UNCHANGED effectRuns

\* the timer of line 434 fires: pollStatus(id)
TimerPoll ==
    /\ pollTimers > 0
    /\ pollTimers' = pollTimers - 1
    /\ IssueStatusRequest
    /\ UNCHANGED <<companyName, status, researchError, hasInitiated, startDue, mounted,
                   location, createInFlight, redirectTimers, createRequests, lastResponse>>
    /\ UNCHANGED effectRuns

\* the timer of lines 429-431 fires: navigate(`/report/${statusData.report_id}`)
TimerRedirect ==
    /\ redirectTimers > 0
    /\ redirectTimers' = redirectTimers - 1
    /\ location' = "report"
    /\ afterUnmount' = IF mounted THEN afterUnmount ELSE afterUnmount \cup {"navigation"}
    /\ mounted' = FALSE
    /\ UNCHANGED <<companyName, status, researchError, hasInitiated, startDue,
                   createInFlight, statusInFlight, pollTimers, createRequests,
                   lastResponse, issuedAfter>>
    /\ UNCHANGED effectRuns

\* the user leaves the page: the 'Go Back Home' button of the error view
\* (line 464) or the browser's navigation
Unmount ==
    /\ mounted
    /\ mounted' = FALSE
    /\ location' = "home"
    /\ UNCHANGED <<companyName, status, researchError, hasInitiated, startDue,
                   createInFlight, statusInFlight, pollTimers, redirectTimers,
                   createRequests, lastResponse, issuedAfter, afterUnmount>>
    /\ UNCHANGED effectRuns

---------------------------------------------------------------------------
(* Specifications *)

\* the build without VITE_API_URL
EnvUnset == VITE_API_URL = <<>>

\* the Report page
Init == ReportInit /\ MdIdle /\ SecIdle /\ EnvUnset /\ ResearchIdle

Next ==
    \/ RunEffect /\ UNCHANGED <<mdVars, secVars, VITE_API_URL, researchVars>>
    \/ FetchResolve /\ UNCHANGED <<mdVars, secVars, VITE_API_URL, researchVars>>
    \/ FetchReject /\ UNCHANGED <<mdVars, secVars, VITE_API_URL, researchVars>>
    \/ ClickTab /\ UNCHANGED <<mdVars, secVars, VITE_API_URL, researchVars>>

Spec == Init /\ [][Next]_vars

\* the Report page with documents whose headings are named like the fixed tabs
TabSpecNext ==
    \/ RunEffect /\ UNCHANGED <<mdVars, secVars, VITE_API_URL, researchVars>>
    \/ FetchResolveFrom(TabDocs) /\ UNCHANGED <<mdVars, secVars, VITE_API_URL, researchVars>>
    \/ FetchReject /\ UNCHANGED <<mdVars, secVars, VITE_API_URL, researchVars>>
    \/ ClickTab /\ UNCHANGED <<mdVars, secVars, VITE_API_URL, researchVars>>

TabSpec == Init /\ [][TabSpecNext]_vars

\* the Report page with a route that changes
RouteSpecNext ==
    \/ RunEffect /\ UNCHANGED <<mdVars, secVars, VITE_API_URL, researchVars>>
    \/ FetchResolveFrom(RouteDocs) /\ UNCHANGED <<mdVars, secVars, VITE_API_URL, researchVars>>
    \/ FetchReject /\ UNCHANGED <<mdVars, secVars, VITE_API_URL, researchVars>>
    \/ ChangeReportId /\ UNCHANGED <<mdVars, secVars, VITE_API_URL, researchVars>>

RouteSpec == Init /\ [][RouteSpecNext]_vars

\* the Research page
ResearchSpecInit == ReportInit /\ MdIdle /\ SecIdle /\ EnvUnset /\ ResearchInit

ResearchNext ==
    \/ StartEffect /\ UNCHANGED <<reportVars, mdVars, secVars, VITE_API_URL>>
    \/ ChangeParams /\ UNCHANGED <<reportVars, mdVars, secVars, VITE_API_URL>>
    \/ CreateResolve /\ UNCHANGED <<reportVars, mdVars, secVars, VITE_API_URL>>
    \/ CreateReject /\ UNCHANGED <<reportVars, mdVars, secVars, VITE_API_URL>>
    \/ StatusResolve /\ UNCHANGED <<reportVars, mdVars, secVars, VITE_API_URL>>
    \/ StatusReject /\ UNCHANGED <<reportVars, mdVars, secVars, VITE_API_URL>>
    \/ TimerPoll /\ UNCHANGED <<reportVars, mdVars, secVars, VITE_API_URL>>
    \/ TimerRedirect /\ UNCHANGED <<reportVars, mdVars, secVars, VITE_API_URL>>
    \/ Unmount /\ UNCHANGED <<reportVars, mdVars, secVars, VITE_API_URL>>

ResearchSpec == ResearchSpecInit /\ [][ResearchNext]_vars

\* the Research page with timers that fire: a timer set by setTimeout (lines
\* 429, 434) is run by the browser after its delay
ResearchLiveSpec ==
    /\ ResearchSpec
    /\ WF_vars(TimerPoll /\ UNCHANGED <<reportVars, mdVars, secVars, VITE_API_URL>>)
    /\ WF_vars(TimerRedirect /\ UNCHANGED <<reportVars, mdVars, secVars, VITE_API_URL>>)

\* the Research page of a job that reports every progress value of
\* ResearchStatus.progress (types/index.ts line 20) while it is polled
TaskNext ==
    \/ StartEffect /\ UNCHANGED <<reportVars, mdVars, secVars, VITE_API_URL>>
    \/ CreateResolve /\ UNCHANGED <<reportVars, mdVars, secVars, VITE_API_URL>>
    \/ StatusResolveFrom(0..MaxProgress)
           /\ UNCHANGED <<reportVars, mdVars, secVars, VITE_API_URL>>
    \/ TimerPoll /\ UNCHANGED <<reportVars, mdVars, secVars, VITE_API_URL>>

TaskSpec == ResearchSpecInit /\ [][TaskNext]_vars

\* one call of parseMarkdown
MdSpecInit == ReportInit /\ MdInit /\ SecIdle /\ EnvUnset /\ ResearchIdle

MdNext ==
    \/ MdInline /\ UNCHANGED <<reportVars, secVars, VITE_API_URL, researchVars>>
    \/ MdLine /\ UNCHANGED <<reportVars, secVars, VITE_API_URL, researchVars>>
    \/ MdReturn /\ UNCHANGED <<reportVars, secVars, VITE_API_URL, researchVars>>

MdSpec == MdSpecInit /\ [][MdNext]_vars

\* one call of parseMarkdown with an image reference, in a build with or
\* without VITE_API_URL
ImageSpecInit ==
    ReportInit /\ MdInitFrom(ImageTexts) /\ SecIdle /\ VITE_API_URL \in EnvValues /\ ResearchIdle

ImageSpec == ImageSpecInit /\ [][MdNext]_vars

\* one call of parseMarkdown with a bold span
BoldSpecInit == ReportInit /\ MdInitFrom(BoldTexts) /\ SecIdle /\ EnvUnset /\ ResearchIdle

BoldSpec == BoldSpecInit /\ [][MdNext]_vars

\* one call of parseMarkdown with lines of one to MaxHashes '#'
HeadingSpecInit == ReportInit /\ MdInitFrom(HeadingTexts) /\ SecIdle /\ EnvUnset /\ ResearchIdle

HeadingSpec == HeadingSpecInit /\ [][MdNext]_vars

\* one call of parseMarkdown with list lines that hold asterisks
MarkerSpecInit == ReportInit /\ MdInitFrom(MarkerTexts) /\ SecIdle /\ EnvUnset /\ ResearchIdle

MarkerSpec == MarkerSpecInit /\ [][MdNext]_vars

\* one call of parseMarkdown with a link reference
LinkSpecInit == ReportInit /\ MdInitFrom(LinkTexts) /\ SecIdle /\ EnvUnset /\ ResearchIdle

LinkSpec == LinkSpecInit /\ [][MdNext]_vars

\* one call of parseSections
SecSpecInit == ReportInit /\ MdIdle /\ SecInit /\ EnvUnset /\ ResearchIdle

SecSpecNext ==
    \/ SecMatch /\ UNCHANGED <<reportVars, mdVars, VITE_API_URL, researchVars>>
    \/ SecMap /\ UNCHANGED <<reportVars, mdVars, VITE_API_URL, researchVars>>
    \/ SecFilter /\ UNCHANGED <<reportVars, mdVars, VITE_API_URL, researchVars>>

SecSpec == SecSpecInit /\ [][SecSpecNext]_vars

---------------------------------------------------------------------------
(* Properties of parseSections and of the Report page, under Spec *)

\* the document of the report on display
Content == report[1].content

\* a heading line: one or more '#', then a space
IsHeadingLine(line) ==
    LET h == HashRun(line, 1)
    IN  h >= 1 /\ Len(line) > h /\ line[h + 1] = " "

\* a level-2 heading line: two '#', then a space
IsH2Line(line) == StartsWith(line, H2Prefix)

\* the 1-based position in the document of the first character of the chunk
\* with the 0-based index k
RECURSIVE ChunkStart(_, _)
ChunkStart(chunks, k) ==
    IF k = 0 THEN 1 ELSE ChunkStart(chunks, k - 1) + Len(chunks[k])

\* word occurs in title when letter case is ignored
ContainsIgnoringCase(title, word) ==
    \E i \in 1..Len(title) :
        /\ i + Len(word) - 1 <= Len(title)
        /\ \A k \in 1..Len(word) : LowerChar(title[i + k - 1]) = word[k]

HasSummaryTitle(s) ==
    ContainsIgnoringCase(s.title, Executive) \/ ContainsIgnoringCase(s.title, Summary)

\* the HTML fragments on display, top to bottom
ShownFragments == Concat([i \in 1..Len(ContentArea) |-> ContentArea[i].fragments])

\* C1: in the list parseSections returns for the document on display, no two
\* sections have the same identifier.
C1_UniqueIds ==
    View = "report" =>
        LET S == Sections
        IN  \A i, j \in 1..Len(S) : i # j => S[i].id # S[j].id

\* C2: the general section list is the list parseSections returns with exactly
\* the promoted section removed (nothing removed when none is promoted), the
\* other sections all kept, in the same order.
C2_GeneralListIsRest ==
    View = "report" =>
        LET S == Sections
            exec == executiveSummary(S)
            NotPromoted(s) == exec = <<>> \/ s.chunk # exec[1].chunk
        IN  filteredSections(S) = SelectSeq(S, NotPromoted)

\* C5: when parseSections returns no section for the loaded report then, before
\* any tab is clicked, the page shows the whole document rendered as one
\* fragment (stated for the documents that have some text to show).
C5_FallbackWholeDocument ==
    (View = "report" /\ Sections = <<>> /\ Trim(Content) # <<>> /\ ~tabClicked) =>
        ShownFragments = <<parseMarkdown(Content)>>

\* C6: for a document none of whose lines is a heading line, parseSections
\* returns the empty sequence.
C6_NoHeadingNoSections ==
    (report # <<>> /\ \A l \in Range(SplitLines(Content)) : ~IsHeadingLine(l)) =>
        parseSections(Content) = <<>>

C6_Witness ==
    /\ report # <<>>
    /\ Len(SplitLines(Content)) >= 2
    /\ Len(Trim(Content)) > BodyMinLength
    /\ \A l \in Range(SplitLines(Content)) : ~IsHeadingLine(l)
    /\ parseSections(Content) = <<>>

\* C7: the chunks of the split, concatenated in order, are the document; every
\* chunk after the first begins with a level-2 heading line; no chunk has a
\* level-2 heading line after its first line.
C7_SplitLossless ==
    (report # <<>> /\ headerMatches(Content)) =>
        LET chunks == SplitSections(Content)
        IN  /\ Concat(chunks) = Content
            /\ \A k \in 2..Len(chunks) : IsH2Line(chunks[k])
            /\ \A k \in 1..Len(chunks) :
                  LET lines == SplitLines(chunks[k])
                  IN  \A n \in 2..Len(lines) : ~IsH2Line(lines[n])

C7_Witness ==
    /\ report # <<>>
    /\ headerMatches(Content)
    /\ Len(SplitSections(Content)) >= 3
    /\ ~IsH2Line(SplitSections(Content)[1])

\* C8: the sections are returned in source order: each is made from a kept
\* chunk of the split, and a section that comes earlier in the list is made
\* from a chunk that starts earlier in the document.
C8_SourceOrder ==
    (report # <<>> /\ headerMatches(Content)) =>
        LET chunks == SplitSections(Content)
            S == Sections
            start == [i \in 1..Len(S) |-> ChunkStart(chunks, S[i].chunk)]
        IN  /\ \A i \in 1..Len(S) :
                  /\ S[i].chunk \in 0..(Len(chunks) - 1)
                  /\ S[i] = MapSection(chunks[S[i].chunk + 1], S[i].chunk)
            /\ \A i, j \in 1..Len(S) : i < j => start[i] < start[j]

C8_Witness ==
    LET S == Sections
    IN  /\ report # <<>>
        /\ Len(S) >= 2
        /\ Len(SplitSections(Content)) > Len(S)
        /\ S[2].chunk > S[1].chunk + 1

\* C9: the overview section is the first section of the list whose title
\* contains 'executive' or 'summary' when letter case is ignored; with no such
\* section there is no overview; a single section is promoted.
C9_OverviewIsFirstMatch ==
    View = "report" =>
        LET S == Sections
            exec == executiveSummary(S)
            hits == {i \in 1..Len(S) : HasSummaryTitle(S[i])}
        IN  /\ Len(exec) <= 1
            /\ exec = <<>> <=> hits = {}
            /\ exec # <<>> => exec[1] = S[Min(hits)]

C9_Witness ==
    LET S == Sections
        exec == executiveSummary(S)
    IN  /\ View = "report"
        /\ Len(S) >= 2
        /\ exec # <<>>
        /\ exec[1] = S[2]
        /\ ~HasSummaryTitle(S[1])
        /\ exec[1].title # ToLowerCase(exec[1].title)

\* C10: a chunk whose body has 10 characters or fewer is neither the overview
\* nor in the general list, whatever its title.
C10_ShortNeverOverview ==
    (View = "report" /\ headerMatches(Content)) =>
        LET chunks == SplitSections(Content)
            S == Sections
            exec == executiveSummary(S)
            general == filteredSections(S)
        IN  \A k \in 1..Len(chunks) :
                Len(BodyOf(SplitLines(Trim(chunks[k])))) <= 10 =>
                    /\ exec = <<>> \/ exec[1].chunk # k - 1
                    /\ \A i \in 1..Len(general) : general[i].chunk # k - 1

C10_Witness ==
    LET chunks == SplitSections(Content)
        S == Sections
    IN  /\ View = "report"
        /\ headerMatches(Content)
        /\ \E k \in 1..Len(chunks) :
              LET s == MapSection(chunks[k], k - 1)
              IN  HasSummaryTitle(s) /\ Len(s.body) <= 10 /\ s.body # <<>>
        /\ executiveSummary(S) = <<>>
        /\ Len(filteredSections(S)) = 1

---------------------------------------------------------------------------
(* Properties of parseMarkdown, under MdSpec *)

\* how many elements of the sequence xs equal x
Count(xs, x) == Cardinality({i \in 1..Len(xs) : xs[i] = x})

\* a line of block-level markup written by the inline pass: a heading tag, or
\* one of the four lines of the image container
IsInlineBlockLine(line) ==
    LET t == Trim(line)
    IN  \/ \E n \in 1..3 : StartsWith(t, HOpen(n))
        \/ StartsWith(t, DivOpen)
        \/ StartsWith(t, ImgOpen)
        \/ StartsWith(t, CaptionOpen)
        \/ StartsWith(t, DivClose)

\* C3: the text parseMarkdown returns has as many list-open lines as
\* list-close lines.
C3_BalancedListTags ==
    mdPc = "done" =>
        Count(SplitLines(mdResult), UlOpen) = Count(SplitLines(mdResult), UlClose)

C3_Witness ==
    /\ mdPc = "done"
    /\ mdLines # <<>>
    /\ IsListLine(Trim(mdLines[Len(mdLines)]))
    /\ Count(SplitLines(mdResult), UlOpen) >= 1
    /\ Count(SplitLines(mdResult), UlOpen) = Count(SplitLines(mdResult), UlClose)

\* C4: no line of the block-level markup written by the inline pass (heading
\* tags, the image container with its image tag, caption and closing tag) is
\* wrapped in a paragraph tag by the list pass: each is pushed as it is.
C4_BlockMarkupUnwrapped ==
    mdPc = "done" =>
        \A i \in 1..Len(mdLines) :
            IsInlineBlockLine(mdLines[i]) =>
                /\ Count(processed, POpen \o mdLines[i] \o PClose) = 0
                /\ Count(processed, mdLines[i]) >= 1

---------------------------------------------------------------------------
(* Properties of parseSections, under SecSpec *)

\* the lines of the chunk with the 1-based index k
ChunkLines(k) == SplitLines(Trim(secSections[k]))

\* the text of a heading line: the '#' and the white space after them
\* removed, every "**" removed, the rest trimmed
HeadingText(line) == Trim(StripBold(StripHashes(line)))

\* the first line of lines that P accepts, as <<line>>, or <<>>
FirstLine(lines, P(_)) ==
    LET hit == {i \in 1..Len(lines) : P(lines[i])}
    IN  IF hit = {} THEN <<>> ELSE <<lines[Min(hit)]>>

\* the heading line a chunk takes its title from: the first level-2 heading
\* line, or without one the first heading line of any level
TitleHeading(lines) ==
    IF FirstLine(lines, IsH2Line) # <<>> THEN FirstLine(lines, IsH2Line)
    ELSE FirstLine(lines, IsHeadingLine)

\* C11: the title of every returned section whose chunk has a heading line of
\* non-empty text is the text of the chunk's first level-2 heading line
\* ("## "), or without one of its first heading line of any level, with the
\* heading markers and the bold markers stripped and the result trimmed
C11_TitleFromFirstHeading ==
    \A i \in 1..Len(secResult) :
        LET from == TitleHeading(ChunkLines(secResult[i].chunk + 1))
        IN  (from # <<>> /\ HeadingText(from[1]) # <<>>)
                => secResult[i].title = HeadingText(from[1])

\* C12: the body of every returned section is made of exactly the lines of
\* its chunk that are not heading lines (one or more '#', then a space), in
\* their order, joined by line breaks and trimmed as a whole
C12_BodyIsNonHeadingLines ==
    \A i \in 1..Len(secResult) :
        LET NotHeading(line) == ~IsHeadingLine(line)
            rest == SelectSeq(ChunkLines(secResult[i].chunk + 1), NotHeading)
        IN  secResult[i].body = Trim(Join(rest))

\* the chunk with the 1-based index k is among the returned sections
Returned(k) == \E i \in 1..Len(secResult) : secResult[i] = secMapped[k]

\* "Section N"
FallbackTitle(n) == <<"S", "e", "c", "t", "i", "o", "n", " ">> \o NumToString(n)

\* the title of the chunk with the 1-based index k after the positional
\* fallback: "Section k" for an empty title with a non-empty body
TitleAfterFallback(k) ==
    LET title == TitleOf(ChunkLines(k))
    IN  IF title = <<>> /\ secMapped[k].body # <<>> THEN FallbackTitle(k) ELSE title

\* C13: once parseSections has returned, a chunk is among the returned
\* sections exactly when its body is longer than 10 characters and its title
\* after the fallback "Section N" (N the 1-based index of the chunk) is not
\* empty; every returned section has a non-empty title and a body of more
\* than 10 characters
C13_ReturnedIffLongBodyAndTitle ==
    (secPc = "done" /\ secSections # <<>>) =>
        /\ \A k \in 1..Len(secSections) :
            /\ secMapped[k].title = TitleAfterFallback(k)
            /\ Returned(k) <=> (Len(secMapped[k].body) > 10 /\ TitleAfterFallback(k) # <<>>)
        /\ \A i \in 1..Len(secResult) :
            /\ secResult[i].title # <<>>
            /\ Len(secResult[i].body) > 10
            /\ Returned(secResult[i].chunk + 1)

\* parseSections has returned a section with the fallback title of a chunk
\* after the first, and has dropped a chunk with a short body that is not empty
C13_Witness ==
    /\ secPc = "done"
    /\ \E k \in 2..Len(secSections) :
        /\ TitleOf(ChunkLines(k)) = <<>>
        /\ Returned(k)
        /\ secMapped[k].title = FallbackTitle(k)
    /\ \E k \in 1..Len(secSections) :
        /\ ~Returned(k)
        /\ secMapped[k].body # <<>>
        /\ Len(secMapped[k].body) <= 10

\* C14: the id of a returned section depends on its title alone: the chunk
\* index has no part in it (the id derived from the title is the same for
\* every index), so two returned sections with the same title have the same id
C14_IdFromTitleAlone ==
    /\ \A i \in 1..Len(secResult), index \in 0..MaxSecLines :
        secResult[i].id = IdOf(secResult[i].title, index)
    /\ \A i, j \in 1..Len(secResult) :
        secResult[i].title = secResult[j].title => secResult[i].id = secResult[j].id

\* parseSections has returned two sections with the same title from different
\* chunks, and the title has no letter and no digit
C14_Witness ==
    /\ secPc = "done"
    /\ \E i, j \in 1..Len(secResult) :
        /\ secResult[i].chunk # secResult[j].chunk
        /\ secResult[i].title = secResult[j].title
        /\ \A c \in 1..Len(secResult[i].title) : ~IsAlnum(secResult[i].title[c])

---------------------------------------------------------------------------
(* Properties of the inline transformations of parseMarkdown *)

\* '<a href="url" target="_blank" rel="noopener noreferrer">shown</a>'
Anchor(url, shown) ==
    <<"<", "a", " ", "h", "r", "e", "f", "=", "\"">> \o url
    \o <<"\"", " ", "t", "a", "r", "g", "e", "t", "=", "\"", "_", "b", "l", "a", "n", "k", "\"",
         " ", "r", "e", "l", "=", "\"", "n", "o", "o", "p", "e", "n", "e", "r", " ",
         "n", "o", "r", "e", "f", "e", "r", "r", "e", "r", "\"", ">">>
    \o shown \o <<"<", "/", "a", ">">>

\* the text displayed for a link text: the first 77 characters and "..." for
\* more than 80 characters, the text itself otherwise
Displayed(text) ==
    IF Len(text) > 80 THEN SubSeq(text, 1, 77) \o <<".", ".", ".">> ELSE text

\* C15: a link reference is rewritten to an anchor whose href is the url
\* unchanged and whose text is the first 77 characters of the link text and
\* "..." (80 characters in all) for a link text of more than 80 characters,
\* and the link text unchanged for 80 characters or fewer
C15_LinkTextTruncation ==
    \A n \in 0..MaxLinkText, url \in LinkUrls :
        (mdPc # "inline" /\ mdText = LinkReference(TextOfLength(n), url)) =>
            /\ mdLines = <<Anchor(url, Displayed(TextOfLength(n)))>>
            /\ n > 80 => Len(Displayed(TextOfLength(n))) = 80
            /\ mdPc = "done" => Includes(mdResult, Anchor(url, Displayed(TextOfLength(n))))

\* parseMarkdown has returned for a link text of 81 characters
C15_Witness ==
    /\ mdPc = "done"
    /\ \E url \in LinkUrls : mdText = LinkReference(TextOfLength(81), url)
    /\ Includes(mdResult, SubSeq(TextOfLength(81), 1, 77) \o <<".", ".", ".", "<">>)

\* the url begins with the prefix of the report assets: 'reports/' or 'reports\'
HasAssetPrefix(url) ==
    /\ Len(url) >= 8
    /\ SubSeq(url, 1, 7) = <<"r", "e", "p", "o", "r", "t", "s">>
    /\ url[8] \in {"/", "\\"}

\* the url with every backslash turned into a forward slash
Slashed(url) == [i \in 1..Len(url) |-> IF url[i] = "\\" THEN "/" ELSE url[i]]

\* the source of the image: the configured base URL, '/' and the url for a
\* report asset, the url itself otherwise
ImageSource(url) ==
    IF HasAssetPrefix(url) THEN API_BASE_URL \o <<"/">> \o Slashed(url) ELSE url

\* C16: an image reference whose url begins with the report-asset prefix is
\* emitted with the source <configured base URL>/<url with forward slashes>,
\* an image url without the prefix is emitted unchanged, and the caption is
\* the alt text
C16_ImageSourceFromConfiguredBase ==
    \A alt \in ImageAlts, url \in ImageUrls :
        (mdPc # "inline" /\ mdText = ImageReference(alt, url)) =>
            /\ Len(mdLines) = 4
            /\ Includes(mdLines[2], <<"<", "i", "m", "g", " ", "s", "r", "c", "=", "\"">>
                                     \o ImageSource(url) \o <<"\"", " ">>)
            /\ Includes(mdLines[3], <<"c", "a", "p", "t", "i", "o", "n", "\"", ">">>
                                     \o alt \o <<"<", "/", "p", ">">>)

\* how many times p occurs in s
Occurrences(s, p) == Cardinality({i \in 1..Len(s) : OccursAt(s, i, p)})

\* s with every "@" replaced by r
RECURSIVE Filled(_, _)
Filled(s, r) ==
    IF s = <<>> THEN <<>>
    ELSE (IF s[1] = "@" THEN r ELSE <<s[1]>>) \o Filled(Tail(s), r)

\* '<strong>X</strong>'
Strong(X) ==
    <<"<", "s", "t", "r", "o", "n", "g", ">">> \o X \o <<"<", "/", "s", "t", "r", "o", "n", "g", ">">>

HasAsterisk(s) == \E i \in 1..Len(s) : s[i] = "*"

\* C17: a bold span '**X**' with no asterisk in X comes out as exactly one
\* '<strong>X</strong>': the output is the output for the text around the span
\* with '<strong>X</strong>' in the place of the span, so no '<em>' is made
\* from the span and none of its asterisks remains
C17_BoldSpanWrappedOnce ==
    \A before \in BoldBefore, X \in BoldInner, after \in BoldAfter :
        (mdPc # "inline" /\ mdText = BoldText(before, X, after)) =>
            LET out == Join(mdLines)
                around == InlineTransform(before \o <<"@">> \o after)
            IN  /\ out = Filled(around, Strong(X))
                /\ Occurrences(out, Strong(X)) = 1
                /\ Occurrences(out, <<"<", "s", "t", "r", "o", "n", "g", ">">>)
                       = 1 + Occurrences(around, <<"<", "s", "t", "r", "o", "n", "g", ">">>)
                /\ (~HasAsterisk(before) /\ ~HasAsterisk(after)) =>
                       (~HasAsterisk(out) /\ ~Includes(out, <<"<", "e", "m", ">">>))

\* parseMarkdown has returned for a bold span between an italic span and
\* another bold span
C17_Witness ==
    /\ mdPc = "done"
    /\ mdText = BoldText(<<"*", "i", "*", " ">>, <<"b", " ", "c">>, <<" ", "*", "*", "d", "*", "*">>)
    /\ Includes(mdResult, Strong(<<"b", " ", "c">>))

\* '<hn>text</hn>'
HeadingTag(n, text) ==
    <<"<", "h", NumToString(n)[1], ">">> \o text \o <<"<", "/", "h", NumToString(n)[1], ">">>

\* the lines of the text given to parseMarkdown
InputLines == SplitLines(mdText)

\* C18: a line of one, two or three '#', one space and non-empty text comes
\* out of the inline transformations as '<hn>text</hn>' with n the number of
\* '#'; a line that starts with four or more '#' comes out as it is, with no
\* heading tag
C18_HeadingLevels ==
    mdPc # "inline" =>
        /\ Len(mdLines) = Len(InputLines)
        /\ \A i \in 1..Len(InputLines) :
            LET line == InputLines[i]
                n == HashRun(line, 1)
            IN  /\ (n \in 1..3 /\ Len(line) > n + 1 /\ line[n + 1] = " ") =>
                       mdLines[i] = HeadingTag(n, SubSeq(line, n + 2, Len(line)))
                /\ n >= 4 =>
                       /\ mdLines[i] = line
                       /\ ~Includes(mdLines[i], <<"<", "h">>)

\* parseMarkdown has returned for a text with a line of three '#' and a line
\* of four '#'
C18_Witness ==
    /\ mdPc = "done"
    /\ \E i, j \in 1..Len(InputLines) :
        /\ HashRun(InputLines[i], 1) = 3
        /\ HashRun(InputLines[j], 1) = 4
        /\ mdLines[i] = HeadingTag(3, SubSeq(InputLines[i], 5, Len(InputLines[i])))
    /\ Includes(mdResult, <<"<", "p", ">", "#", "#", "#", "#", " ">>)

---------------------------------------------------------------------------
(* Properties of the list pass of parseMarkdown, under MdSpec *)

\* a list line: after trimming it starts with '- ' or '* '
IsListInput(line) ==
    LET t == Trim(line)
    IN  Len(t) >= 2 /\ t[1] \in {"-", "*"} /\ t[2] = " "

\* '<li>item</li>' for a list line
ListItem(line) ==
    LET t == Trim(line)
    IN  <<"<", "l", "i", ">">> \o SubSeq(t, 3, Len(t)) \o <<"<", "/", "l", "i", ">">>

ListOpenTag == <<"<", "u", "l", ">">>

ListCloseTag == <<"<", "/", "u", "l", ">">>

\* lines a..b of the input of the list pass are a maximal run of list lines
IsMaximalRun(a, b) ==
    /\ a <= b
    /\ \A i \in a..b : IsListInput(mdLines[i])
    /\ a = 1 \/ ~IsListInput(mdLines[a - 1])
    /\ b = Len(mdLines) \/ ~IsListInput(mdLines[b + 1])

MaximalRuns == {r \in (1..Len(mdLines)) \X (1..Len(mdLines)) : IsMaximalRun(r[1], r[2])}

\* C19: once the list pass is over, every maximal run of k >= 1 consecutive
\* list lines of its input stands in the output as one '<ul>', the k '<li>'
\* lines in input order and one '</ul>', one after the other; there are as
\* many '<ul>' and as many '</ul>' as there are runs
C19_OneListPerRun ==
    mdPc = "done" =>
        /\ \A r \in MaximalRuns :
            \E p \in 1..Len(processed) :
                /\ p + (r[2] - r[1]) + 2 <= Len(processed)
                /\ processed[p] = ListOpenTag
                /\ \A m \in 0..(r[2] - r[1]) : processed[p + 1 + m] = ListItem(mdLines[r[1] + m])
                /\ processed[p + (r[2] - r[1]) + 2] = ListCloseTag
        /\ Count(processed, ListOpenTag) = Cardinality(MaximalRuns)
        /\ Count(processed, ListCloseTag) = Cardinality(MaximalRuns)

\* the list pass is over for an input of one run of three list lines with
\* both markers
C19_Witness ==
    /\ mdPc = "done"
    /\ Len(mdLines) = 3
    /\ IsMaximalRun(1, 3)
    /\ \E i, j \in 1..3 : Trim(mdLines[i])[1] = "-" /\ Trim(mdLines[j])[1] = "*"
    /\ Len(processed) = 5

\* a line whose trimmed text is empty
IsBlankInput(line) == Trim(line) = <<>>

\* a line that starts with block-level markup: a heading tag or a container
\* element
IsBlockInput(line) ==
    LET t == Trim(line)
    IN  \/ Len(t) >= 4 /\ SubSeq(t, 1, 4) = <<"<", "d", "i", "v">>
        \/ Len(t) >= 4 /\ t[1] = "<" /\ t[2] = "h" /\ t[3] \in {"1", "2", "3", "4", "5", "6"}
               /\ t[4] = ">"

\* the content line of the output for a line of the input
ContentLine(line) ==
    IF IsListInput(line) THEN ListItem(line)
    ELSE IF IsBlockInput(line) THEN line
    ELSE <<"<", "p", ">">> \o line \o <<"<", "/", "p", ">">>

ContentLines ==
    SelectSeq(processed, LAMBDA line : line # ListOpenTag /\ line # ListCloseTag)

\* the lines of the input the loop has gone through
LinesDone == SubSeq(mdLines, 1, mdNext - 1)

\* C21: right after the loop has gone through a blank line (empty or white
\* space only) no list is open: every '<ul>' pushed so far has its '</ul>',
\* and the blank lines have added no content line; so two list lines with a
\* blank line between them come out as two lists, each with its own '<ul>'
\* and '</ul>'
C21_BlankLineClosesList ==
    /\ (mdPc \in {"loop", "done"} /\ mdNext > 1 /\ IsBlankInput(mdLines[mdNext - 1])) =>
        /\ inList = FALSE
        /\ Count(processed, ListOpenTag) = Count(processed, ListCloseTag)
        /\ Len(ContentLines) = Len(SelectSeq(LinesDone, LAMBDA line : ~IsBlankInput(line)))
    /\ mdPc = "done" =>
        \A i \in 2..(Len(mdLines) - 1) :
            (IsListInput(mdLines[i - 1]) /\ IsBlankInput(mdLines[i]) /\ IsListInput(mdLines[i + 1])) =>
                \E p \in 1..(Len(processed) - 3) :
                    /\ processed[p] = ListItem(mdLines[i - 1])
                    /\ processed[p + 1] = ListCloseTag
                    /\ processed[p + 2] = ListOpenTag
                    /\ processed[p + 3] = ListItem(mdLines[i + 1])

\* the list pass is over for a list line, a line of white space and a list
\* line: two lists have been pushed
C21_Witness ==
    /\ mdPc = "done"
    /\ Len(mdLines) = 3
    /\ IsListInput(mdLines[1])
    /\ mdLines[2] = <<" ">>
    /\ IsListInput(mdLines[3])
    /\ Len(processed) = 6
    /\ Count(processed, ListOpenTag) = 2

\* '<ul>' lines less '</ul>' lines among the first n lines of processed
OpenLists(n) ==
    Count(SubSeq(processed, 1, n), ListOpenTag) - Count(SubSeq(processed, 1, n), ListCloseTag)

IsListItemLine(line) == Len(line) >= 4 /\ SubSeq(line, 1, 4) = <<"<", "l", "i", ">">>

\* C23: at every point of the output of the list pass the '<ul>' pushed so
\* far less the '</ul>' pushed so far is 0 or 1; a '<ul>' comes only at 0, a
\* '</ul>' and a '<li>' line only at 1, and every other line (paragraph or
\* passed through) only at 0
C23_ListDepthZeroOrOne ==
    \A n \in 1..Len(processed) :
        /\ OpenLists(n) \in {0, 1}
        /\ processed[n] = ListOpenTag => OpenLists(n - 1) = 0
        /\ processed[n] = ListCloseTag => OpenLists(n - 1) = 1
        /\ IsListItemLine(processed[n]) => OpenLists(n - 1) = 1
        /\ (processed[n] # ListOpenTag /\ processed[n] # ListCloseTag
                /\ ~IsListItemLine(processed[n])) => OpenLists(n - 1) = 0

\* the loop has pushed a list, a paragraph after its '</ul>' and the first
\* item of a second list
C23_Witness ==
    /\ Len(processed) = 6
    /\ processed[1] = ListOpenTag
    /\ IsListItemLine(processed[2])
    /\ processed[3] = ListCloseTag
    /\ SubSeq(processed[4], 1, 3) = <<"<", "p", ">">>
    /\ processed[5] = ListOpenTag
    /\ IsListItemLine(processed[6])
    /\ inList

---------------------------------------------------------------------------
(* Properties of parseMarkdown as a whole *)

\* C24: once parseMarkdown has returned, every line of its text whose
\* trimmed text begins with '- ' or '* ' has come out as a list item: the
\* line is still a list line when the list pass reads it, and the output
\* has one '<li>' line for each
C24_MarkedLinesAreListItems ==
    mdPc = "done" =>
        /\ Len(mdLines) = Len(InputLines)
        /\ \A i \in 1..Len(InputLines) :
            IsListInput(InputLines[i]) => IsListInput(mdLines[i])
        /\ Len(SelectSeq(processed, IsListItemLine))
               = Len(SelectSeq(InputLines, IsListInput))

---------------------------------------------------------------------------
(* Properties of the tabs of the Report page, under TabSpec *)

\* no two sections of the report on display have the same id
DistinctIds(sections) ==
    \A i, j \in 1..Len(sections) : sections[i].id = sections[j].id => i = j

\* C25: for a report whose sections have distinct ids, after any tab click
\* at most one panel is displayed; when the active tab is the id of a
\* section of the tab list, the one panel displayed is that section's
C25_OnePanelPerTab ==
    LET sections == Sections
    IN  (View = "report" /\ tabClicked /\ DistinctIds(sections)) =>
            /\ Len(ContentArea) <= 1
            /\ \A i \in 1..Len(sections) :
                activeTab = sections[i].id /\ sections[i] \in Range(filteredSections(sections))
                    => /\ Len(ContentArea) = 1
                       /\ ContentArea[1].panel = "section"
                       /\ ContentArea[1].chunk = sections[i].chunk

---------------------------------------------------------------------------
(* Properties of the Report page under route changes, under RouteSpec *)

\* C29: once the effect has run and every getReport request has settled, a
\* report on display without an error is the report of the current
\* reportId
C29_SettledReportIsCurrent ==
    (~effectDue /\ pending = EmptyBag /\ View = "report") =>
        report[1].report_id = reportId

---------------------------------------------------------------------------
(* Properties of the Research page *)

\* C22: whenever the mounted page has polled the status 'completed', it
\* eventually navigates to the report page, given that its timers fire
C22_CompletedLeadsToReport ==
    (mounted /\ lastResponse = "completed") ~> (location = "report")

\* C26: the mounted Research page issues the createResearch request at most
\* once, however often its start effect runs
C26_CreateAtMostOnce == createRequests <= 1

\* the start effect has run again, for another company, after the request
\* was issued
C26_Witness ==
    /\ effectRuns >= 2
    /\ ~startDue
    /\ mounted
    /\ companyName = <<"globex">>
    /\ createRequests = 1

\* C27: a status request is issued only at the start or after a 'pending'
\* or 'running' response, and after such a response the next request is in
\* flight or on its timer; after a 'completed' or 'failed' response or a
\* failed status request none is in flight or on a timer, so none is issued
\* any more; in the two failure cases the mounted page displays the error
C27_PollOnlyWhileUnfinished ==
    /\ issuedAfter \in {"none", "pending", "running"}
    /\ lastResponse \in {"pending", "running"} => statusInFlight + pollTimers = 1
    /\ lastResponse \in {"completed", "failed", "rejected"} =>
           (statusInFlight = 0 /\ pollTimers = 0)
    /\ (lastResponse \in {"failed", "rejected"} /\ mounted) => ResearchView = "error"

\* the page has polled again after a 'running' response and the job has
\* failed: the error is displayed
C27_Witness ==
    /\ issuedAfter = "running"
    /\ lastResponse = "failed"
    /\ mounted
    /\ ResearchView = "error"
    /\ statusInFlight = 0
    /\ pollTimers = 0

\* C28: once the Research page has been unmounted it issues no status
\* request and triggers no navigation to a report page
C28_QuietAfterUnmount == afterUnmount = {}

\* the positions of RESEARCH_TASKS
TaskIndexes == 1..Len(RESEARCH_TASKS)

\* C30: for every progress value from 0 to 100 at most one research task is
\* marked active, no task is marked both complete and active, and a task is
\* marked complete only if every earlier task is
C30_TaskMarksConsistent ==
    /\ Progress \in 0..MaxProgress
    /\ Cardinality({i \in TaskIndexes : isActive(i)}) <= 1
    /\ \A i \in TaskIndexes : ~(isComplete(i) /\ isActive(i))
    /\ \A i \in TaskIndexes : \A j \in 1..(i - 1) : isComplete(i) => isComplete(j)

\* the progress view at progress 60: three tasks complete, the fourth active
C30_Witness ==
    /\ ResearchView = "progress"
    /\ status # <<>>
    /\ Progress = 60
    /\ {i \in TaskIndexes : isComplete(i)} = 1..3
    /\ {i \in TaskIndexes : isActive(i)} = {4}

====
